---- MODULE Spec2Model ----
(***************************************************************************)
(* A model of qsiprep/interfaces/itk.py.                                   *)
(*                                                                         *)
(*   Spec          MultiApplyTransforms._run_interface and _applytfms:     *)
(*                 the per-volume jobs, the sequential path, the thread    *)
(*                 pool, the gathering of results and the command log.     *)
(*   SpecArrange   _arrange_xfms on chains of transform files.             *)
(*   SpecRotation  rotation_matrix_from_transform on tool outputs.         *)
(*                                                                         *)
(* Python lists are indexed from 0; a list of length n is modelled as a    *)
(* function on 0..n-1 where the code indexes it, and as a TLA+ sequence    *)
(* (position i+1 for index i) where the code builds it by appending.       *)
(* A string is a sequence of tokens; concatenation is \o.                  *)
(***************************************************************************)
EXTENDS Integers, Sequences, FiniteSets, TLC

VARIABLES
    \* ---- MultiApplyTransforms: inputs
    in_files,      \* self.inputs.input_image, a function on 0..N-1
    nxfms,         \* len(self.inputs.transforms)
    num_threads,   \* self.inputs.num_threads
    copy_dtype,    \* self.inputs.copy_dtype
    save_cmd,      \* self.inputs.save_cmd
    ifargs,        \* the option dict shared by every job (key -> value)
    \* ---- MultiApplyTransforms: run state
    pc,            \* "init", "seq", "pool", "aborting", "done", "failed"
    tmpExists,     \* the TemporaryDirectory is on disk
    status,        \* per job: "none", "queued", "running", "ok", "failed", "cancelled"
    jobCopy,       \* per job: the value its pop of 'copy_dtype' returned
    jobOut,        \* per job: the out_file it writes
    outDtype,      \* per job: data type of the file at its out_file
    completed,     \* job indices in the order the jobs returned
    gathered,      \* the list out_files of _run_interface, as built so far
    results,       \* self._results
    logFile,       \* content of command.txt, or Absent
    error,         \* the exception the run raised, or NoError
    \* ---- _arrange_xfms
    aChain, aN, aPc, aI, aJ, aRows, aSplit, aWritten, aResult, aError,
    \* ---- rotation_matrix_from_transform
    rOut, rPc, rResult

execVars == <<in_files, nxfms, num_threads, copy_dtype, save_cmd, ifargs, pc,
              tmpExists,
              status, jobCopy, jobOut, outDtype, completed, gathered, results,
              logFile, error>>
arrVars == <<aChain, aN, aPc, aI, aJ, aRows, aSplit, aWritten, aResult, aError>>
rotVars == <<rOut, rPc, rResult>>
vars == <<execVars, arrVars, rotVars>>

\* ------------------------------------------------------------------ bounds
MaxFiles == 3

\* ------------------------------------------------------------------ values
\* Python's None as the value of num_threads: no worker count below 1 is left
\* after line 107, so 0 is free to stand for it
None == 0
Absent == "Absent"
NoError == "NoError"
Unset == "Unset"

\* ================================================================ strings
Digit(d) == CASE d = 0 -> "0" [] d = 1 -> "1" [] d = 2 -> "2" [] d = 3 -> "3"
              [] d = 4 -> "4" [] d = 5 -> "5" [] d = 6 -> "6" [] d = 7 -> "7"
              [] d = 8 -> "8" [] d = 9 -> "9"

RECURSIVE Decimal(_)
\* '%d' % n for n >= 0
Decimal(n) == IF n < 10 THEN <<Digit(n)>>
              ELSE Decimal(n \div 10) \o <<Digit(n % 10)>>

RECURSIVE ZeroPad(_, _)
\* the '0' flag of a printf conversion: pad on the left to the width
ZeroPad(s, width) == IF Len(s) >= width THEN s ELSE ZeroPad(<<"0">> \o s, width)

XformWidth == 5
\* '_xform-%05d' % index
XformSuffix(index) == <<"_xform-">> \o ZeroPad(Decimal(index), XformWidth)

\* nipype's split_filename: the extension is one of the special double
\* extensions, or what os.path.splitext gives (the last dot-token).
SpecialExts == {<<".nii", ".gz">>, <<".tar", ".gz">>, <<".niml", ".dset">>}
IsDotToken(t) == t \in {".nii", ".gz", ".tar", ".niml", ".dset", ".txt", ".mat"}
Tail2(s) == SubSeq(s, Len(s) - 1, Len(s))
SplitExt(name) ==
    IF Len(name) > 2 /\ Tail2(name) \in SpecialExts
    THEN <<SubSeq(name, 1, Len(name) - 2), Tail2(name)>>
    ELSE IF Len(name) > 1 /\ IsDotToken(name[Len(name)])
    THEN <<SubSeq(name, 1, Len(name) - 1), <<name[Len(name)]>>>>
    ELSE <<name, <<>>>>

\* fname_presuffix(fname, suffix=suffix, newpath=newpath, use_ext=True)
FnamePresuffix(fname, suffix, newpath) ==
    <<newpath, "/">> \o SplitExt(fname)[1] \o suffix \o SplitExt(fname)[2]

Cwd == "cwd"

OutFileNoIndex(in_file, index) == FnamePresuffix(in_file, <<"_xform">>, Cwd)
\* _applytfms: out_file
OutFile(in_file, index) == FnamePresuffix(in_file, XformSuffix(index), Cwd)

\* runtime.cmdline of the ApplyTransforms interface run by job `index`
Cmdline(in_file, index, out_file) ==
    <<"antsApplyTransforms", "-i">> \o in_file \o <<"-o">> \o out_file
        \o <<"-t", "xfm">> \o Decimal(index)

\* ============================================= MultiApplyTransforms: data
NameA == <<"vol", ".nii", ".gz">>
NameB == <<"vol", "_xform-", "0", "0", "0", "0", "1", ".nii">>
FileNames == {NameA, NameB}

\* num_threads is any integer; these cover None (below 1), 1 and a pool
ThreadCounts == {0 - 1, 0, 1, 2}

Dtypes == {"int16", "float32"}
\* nb.load(in_file).get_data_dtype(): a property of the input file
InDtype(in_file) == IF in_file = NameA THEN "int16" ELSE "float32"

\* data type of the image the external tool writes: antsApplyTransforms
\* resamples in floating point whatever the input's type
ToolDtype == "float32"

NumFiles == Cardinality(DOMAIN in_files)
Jobs == DOMAIN in_files
Running == {i \in Jobs : status[i] = "running"}

\* dict.pop(key, default): the value and the dict without the key
DictPop(d, key, default) ==
    IF key \in DOMAIN d
    THEN <<d[key], [k \in DOMAIN d \ {key} |-> d[k]]>>
    ELSE <<default, d>>

NormThreadsOffByOne(nt) == IF nt <= 1 THEN None ELSE nt
\* if num_threads < 1: num_threads = None
NormThreads(nt) == IF nt < 1 THEN None ELSE nt

\* ThreadPoolExecutor(max_workers=None): min(32, os.cpu_count() + 4), which
\* is at least this many workers
DefaultMaxWorkers == 5
PoolSize == IF NormThreads(num_threads) = None THEN DefaultMaxWorkers
            ELSE NormThreads(num_threads)

\* Which job may enter _applytfms.  Sequential path: the list comprehension
\* calls job i once i results are in the list.  Pool: the work queue is FIFO,
\* so a queued job can be picked by an idle worker when fewer queued jobs
\* precede it than there are idle workers.
CanStart(i) ==
    IF pc = "seq"
    THEN i = Len(gathered) /\ Running = {}
    ELSE Cardinality({j \in Jobs : j < i /\ status[j] = "queued"})
            < PoolSize - Cardinality(Running)

NextFutureAsCompleted(k, done) ==
    IF k < Len(done) THEN done[k + 1]
    ELSE CHOOSE i \in 0..MaxFiles + 1 : \A n \in 1..Len(done) : done[n] # i
\* The future whose result Executor.map yields after k results (and the job
\* the list comprehension runs after k results): submission order.
NextFuture(k, done) == k

GatherOutcomeSwallow(st) ==
    IF st \in {"ok", "failed"} THEN "yield" ELSE "wait"
\* future.result(): blocks until the job returned, re-raises what it raised
GatherOutcome(st) ==
    IF st = "ok" THEN "yield" ELSE IF st = "failed" THEN "raise" ELSE "wait"

Delim == "\n-------\n"
RECURSIVE Join(_, _)
\* sep.join(parts), parts a sequence of strings
Join(sep, parts) ==
    IF Len(parts) = 0 THEN <<>>
    ELSE IF Len(parts) = 1 THEN parts[1]
    ELSE parts[1] \o <<sep>> \o Join(sep, Tail(parts))

CommandTxt == <<Cwd, "/", "command.txt">>

\* ========================================== MultiApplyTransforms: actions
ArrangeIdle ==
    /\ aChain = <<>> /\ aN = 0 /\ aPc = "idle" /\ aI = 0 /\ aJ = 0
    /\ aRows = <<>> /\ aSplit = <<>> /\ aWritten = <<>> /\ aResult = Unset
    /\ aError = NoError
RotationIdle == rOut = <<>> /\ rPc = "idle" /\ rResult = Unset

ExecInit ==
    /\ \E n \in 0..MaxFiles : in_files \in [0..n - 1 -> FileNames]
    /\ nxfms \in 0..MaxFiles
    /\ num_threads \in ThreadCounts
    /\ copy_dtype \in BOOLEAN
    /\ save_cmd \in BOOLEAN
    /\ ifargs = [k \in {"copy_dtype", "interpolation"} |->
                    IF k = "copy_dtype" THEN copy_dtype ELSE "Linear"]
    /\ pc = "init"
    /\ tmpExists = FALSE
    /\ status = [i \in DOMAIN in_files |-> "none"]
    /\ jobCopy = [i \in DOMAIN in_files |-> FALSE]
    /\ jobOut = [i \in DOMAIN in_files |-> <<>>]
    /\ outDtype = [i \in DOMAIN in_files |-> Absent]
    /\ completed = <<>>
    /\ gathered = <<>>
    /\ results = Unset
    /\ logFile = Absent
    /\ error = NoError

Init == ExecInit /\ ArrangeIdle /\ RotationIdle

\* lines 99-120: the temporary folder, the assertion, the choice of path and
\* (pool) the submission of every job by Executor.map
Begin ==
    /\ pc = "init"
    /\ tmpExists' = TRUE
    /\ \/ /\ nxfms # NumFiles
          /\ pc' = "failed"
          /\ error' = <<"AssertionError">>
          /\ UNCHANGED status
       \/ /\ nxfms = NumFiles
          /\ pc' = IF NormThreads(num_threads) = 1 THEN "seq" ELSE "pool"
          /\ status' = [i \in Jobs |-> "queued"]
          /\ UNCHANGED error
    /\ UNCHANGED <<in_files, nxfms, num_threads, copy_dtype, save_cmd, ifargs,
                   jobCopy, jobOut, outDtype, completed, gathered, results,
                   logFile>>
    /\ UNCHANGED <<arrVars, rotVars>>

\* _applytfms, lines 144-152: up to the call of the external tool
StartJob(i) ==
    /\ pc \in {"seq", "pool"}
    /\ status[i] = "queued"
    /\ CanStart(i)
    /\ LET popped == DictPop(ifargs, "copy_dtype", FALSE)
       IN /\ jobCopy' = [jobCopy EXCEPT ![i] = popped[1]]
          /\ ifargs' = popped[2]
    /\ jobOut' = [jobOut EXCEPT ![i] = OutFile(in_files[i], i)]
    /\ status' = [status EXCEPT ![i] = "running"]
    /\ UNCHANGED <<in_files, nxfms, num_threads, copy_dtype, save_cmd, pc,
                   tmpExists, outDtype, completed, gathered, results, logFile,
                   error>>
    /\ UNCHANGED <<arrVars, rotVars>>

\* _applytfms, lines 153-164: the tool returns (writing out_file with the data
\* type it chose) or raises; then the data type is copied if this job's
\* copy_dtype is true
FinishJob(i) ==
    /\ status[i] = "running"
    /\ \/ /\ outDtype' = [outDtype EXCEPT ![i] =
                 IF jobCopy[i] /\ InDtype(in_files[i]) # ToolDtype
                 THEN InDtype(in_files[i]) ELSE ToolDtype]
          /\ status' = [status EXCEPT ![i] = "ok"]
       \/ /\ status' = [status EXCEPT ![i] = "failed"]
          /\ UNCHANGED outDtype
    /\ completed' = Append(completed, i)
    /\ UNCHANGED <<in_files, nxfms, num_threads, copy_dtype, save_cmd, ifargs,
                   pc, tmpExists, jobCopy, jobOut, gathered, results, logFile,
                   error>>
    /\ UNCHANGED <<arrVars, rotVars>>

\* lines 110-113 and 117-120: the next element of out_files.  A job that
\* raised ends the comprehension (sequential) or the iteration of
\* Executor.map, which cancels the futures still queued (pool).
Gather ==
    /\ pc \in {"seq", "pool"}
    /\ Len(gathered) < NumFiles
    /\ LET f == NextFuture(Len(gathered), completed)
       IN /\ f \in Jobs
          /\ \/ /\ GatherOutcome(status[f]) = "yield"
                /\ gathered' = Append(gathered,
                       <<jobOut[f], Cmdline(in_files[f], f, jobOut[f])>>)
                /\ UNCHANGED <<pc, status, error>>
             \/ /\ GatherOutcome(status[f]) = "raise"
                /\ error' = <<"ExternalToolError", f>>
                /\ pc' = IF pc = "seq" THEN "failed" ELSE "aborting"
                /\ status' = [i \in Jobs |->
                       IF status[i] = "queued" THEN "cancelled" ELSE status[i]]
                /\ UNCHANGED gathered
    /\ UNCHANGED <<in_files, nxfms, num_threads, copy_dtype, save_cmd, ifargs,
                   tmpExists, jobCopy, jobOut, outDtype, completed, results,
                   logFile>>
    /\ UNCHANGED <<arrVars, rotVars>>

\* line 116: leaving the `with` block on an exception waits for the jobs that
\* are running, then the exception leaves _run_interface.  Line 121 is not
\* reached: the temporary folder stays until the TemporaryDirectory object is
\* finalized, after the caller has dropped the exception.
PoolShutdown ==
    /\ pc = "aborting"
    /\ Running = {}
    /\ pc' = "failed"
    /\ UNCHANGED <<in_files, nxfms, num_threads, copy_dtype, save_cmd, ifargs,
                   tmpExists, status, jobCopy, jobOut, outDtype, completed,
                   gathered, results, logFile, error>>
    /\ UNCHANGED <<arrVars, rotVars>>

\* lines 121-131
Finalize ==
    /\ pc \in {"seq", "pool"}
    /\ Len(gathered) = NumFiles
    /\ tmpExists' = FALSE
    /\ results' = [out_files |-> [k \in 1..Len(gathered) |-> gathered[k][1]],
                   log_cmdline |-> IF save_cmd THEN CommandTxt ELSE Unset]
    /\ logFile' = IF save_cmd
                  THEN Join(Delim, [k \in 1..Len(gathered) |-> gathered[k][2]])
                           \o <<"\n">>
                  ELSE Absent
    /\ pc' = "done"
    /\ UNCHANGED <<in_files, nxfms, num_threads, copy_dtype, save_cmd, ifargs,
                   status, jobCopy, jobOut, outDtype, completed, gathered,
                   error>>
    /\ UNCHANGED <<arrVars, rotVars>>

Next ==
    \/ Begin
    \/ \E i \in Jobs : StartJob(i)
    \/ \E i \in Jobs : FinishJob(i)
    \/ Gather
    \/ PoolShutdown
    \/ Finalize

Spec == Init /\ [][Next]_vars

\* ======================================= MultiApplyTransforms: properties
Pooled == NormThreads(num_threads) # 1
Started(i) == status[i] \in {"running", "ok", "failed"}
Returned(i) == status[i] \in {"ok", "failed"}
SomeJobFailed == \E i \in Jobs : status[i] = "failed"

RECURSIVE ExpectedLog(_)
\* the invocation descriptions of volumes 0..n-1, in index order, with the
\* delimiter between consecutive ones
ExpectedLog(n) ==
    IF n = 0 THEN <<>>
    ELSE LET last == Cmdline(in_files[n - 1], n - 1,
                             OutFile(in_files[n - 1], n - 1))
         IN IF n = 1 THEN last ELSE ExpectedLog(n - 1) \o <<Delim>> \o last

\* C1: whatever the worker count and the order in which the jobs complete,
\* the list being gathered holds at position i the result of job i, the
\* returned out_files has at position i the output of job i, and the command
\* log, when recorded, is the invocation descriptions in index order joined
\* by the delimiter (print ends it with a newline).
C1_IndexOrdered ==
    /\ \A k \in 1..Len(gathered) : gathered[k][1] = jobOut[k - 1]
    /\ pc = "done" =>
          /\ Len(results.out_files) = NumFiles
          /\ \A i \in Jobs :
                /\ results.out_files[i + 1] = jobOut[i]
                /\ results.out_files[i + 1] = OutFile(in_files[i], i)
          /\ save_cmd => logFile = ExpectedLog(NumFiles) \o <<"\n">>

\* a pooled run that ended although job 0 was not the first to complete
C1_Witness ==
    /\ pc = "done" /\ Pooled /\ save_cmd
    /\ NumFiles >= 3
    /\ completed[1] = 2 /\ completed[2] = 0

InOrderOneAtATime ==
    /\ Cardinality(Running) <= 1
    /\ \A i \in Jobs : (i + 1 \in Jobs /\ Started(i + 1)) => Returned(i)

\* C2 as stated: with a worker count of 1, 0 or below, job i+1 does not start
\* before job i has finished and no two jobs are in progress at once.
C2_SequentialUpToOne == num_threads <= 1 => InOrderOneAtATime

\* C2, amended: with a worker count of exactly 1 the run uses no pool, job
\* i+1 does not start before job i has finished and no two jobs are in
\* progress at once; any other worker count never takes the sequential path.
C2_SequentialAtOne ==
    /\ num_threads = 1 => pc \notin {"pool", "aborting"} /\ InOrderOneAtATime
    /\ num_threads # 1 => pc # "seq"

\* worker count 1: job 1 runs after job 0 has returned
C2_Witness ==
    /\ num_threads = 1 /\ pc = "seq"
    /\ NumFiles >= 2 /\ status[0] = "ok" /\ status[1] = "running"

\* C3 as stated: with copy_dtype set, at the end of a successful run every
\* output has the data type of its input.
C3_DtypeCopiedForAll ==
    (pc = "done" /\ copy_dtype) =>
        \A i \in Jobs : outDtype[i] = InDtype(in_files[i])

\* C4: once a job has failed the run does not return: out_files is never
\* set, the command log is never written, the run cannot stop before it has
\* failed, and the error it fails with is the error of a job that failed.
C4_FailureAbortsRun ==
    /\ SomeJobFailed =>
          /\ pc # "done"
          /\ results = Unset
          /\ logFile = Absent
          /\ pc # "failed" => ENABLED Next
    /\ pc = "failed" =>
          /\ results = Unset
          /\ logFile = Absent
          /\ error # NoError
          /\ error[1] = "ExternalToolError" => status[error[2]] = "failed"

\* a pooled run that failed on job 0 although a later job had succeeded
C4_Witness ==
    /\ pc = "failed" /\ Pooled
    /\ NumFiles >= 2 /\ status[0] = "failed" /\ status[1] = "ok"
    /\ error = <<"ExternalToolError", 0>>

\* C5 as stated: the temporary folder is gone when the run exits, whether it
\* returned or raised.
C5_TmpRemovedOnExit == pc \in {"done", "failed"} => ~tmpExists

\* C10: the output paths of two distinct volume indices differ, whatever the
\* input names; each job writes in the working directory to the path derived
\* from its input and its index, and no two jobs in progress write the same
\* file.
C10_OutputPathsDistinct ==
    /\ pc = "init" =>
          /\ \A i, j \in Jobs :
                i # j => OutFile(in_files[i], i) # OutFile(in_files[j], j)
          /\ \A i \in Jobs :
                LET out == OutFile(in_files[i], i)
                IN /\ out[1] = Cwd
                   /\ \E k \in 1..Len(out) - Len(XformSuffix(i)) + 1 :
                         SubSeq(out, k, k + Len(XformSuffix(i)) - 1)
                             = XformSuffix(i)
    /\ \A i \in Running : jobOut[i] = OutFile(in_files[i], i)
    /\ \A i, j \in Running : i # j => jobOut[i] # jobOut[j]

\* two jobs on the same input file in progress at once
C10_Witness ==
    \E i, j \in Running : i # j /\ in_files[i] = in_files[j]

\* ========================================================== _arrange_xfms
\* A text is the sequence of its lines (what split('\n') gives: a text that
\* ends with a newline has an empty last line); a line is a sequence of
\* tokens, " " being a run of blanks.
MaxChain == 2
MaxVolumes == 3
MaxBlocks == 3

IsWs(t) == t \in {" ", "\t"}

RECURSIVE RStripLine(_)
RStripLine(l) ==
    IF Len(l) > 0 /\ IsWs(l[Len(l)]) THEN RStripLine(SubSeq(l, 1, Len(l) - 1))
    ELSE l

RECURSIVE LStripLine(_)
LStripLine(l) == IF Len(l) > 0 /\ IsWs(l[1]) THEN LStripLine(Tail(l)) ELSE l

RECURSIVE RStripText(_)
RStripText(t) ==
    LET last == RStripLine(t[Len(t)])
    IN IF Len(last) = 0 /\ Len(t) > 1 THEN RStripText(SubSeq(t, 1, Len(t) - 1))
       ELSE SubSeq(t, 1, Len(t) - 1) \o <<last>>

RECURSIVE LStripText(_)
LStripText(t) ==
    LET first == LStripLine(t[1])
    IN IF Len(first) = 0 /\ Len(t) > 1 THEN LStripText(Tail(t))
       ELSE <<first>> \o Tail(t)

\* str.strip(): white space, newlines included, removed from both ends
Strip(t) == LStripText(RStripText(t))

RECURSIVE CountInLine(_, _)
CountInLine(l, tok) ==
    IF Len(l) = 0 THEN 0
    ELSE (IF l[1] = tok THEN 1 ELSE 0) + CountInLine(Tail(l), tok)

RECURSIVE Count(_, _)
\* str.count(tok) on a text
Count(t, tok) ==
    IF Len(t) = 0 THEN 0 ELSE CountInLine(t[1], tok) + Count(Tail(t), tok)

\* list.index(x): the first position (from 0) of x, or NotFound for the
\* ValueError
NotFound == 0 - 1
ListIndex(lines, x) ==
    IF \E n \in 1..Len(lines) : lines[n] = x
    THEN (CHOOSE n \in 1..Len(lines) :
              lines[n] = x /\ \A q \in 1..n - 1 : lines[q] # x) - 1
    ELSE NotFound

\* lst[a:b] for 0 <= a <= b
Slice(lines, a, b) ==
    SubSeq(lines, a + 1, IF b < Len(lines) THEN b ELSE Len(lines))

\* ---- the transform files the chains are made of
HeaderTag == "#Insight Transform File"
HeaderLine == <<HeaderTag, " ", "V1.0">>
\* '#Transform %d' % xform_i
Marker(n) == <<"#Transform", " ">> \o Decimal(n)

\* the three data lines of block b of the container `tag`
BlockLines(tag, b) ==
    << <<"Transform:", " ", "AffineTransform_double_3_3">>,
       <<"Parameters:", " ", tag, " ">> \o Decimal(b),
       <<"FixedParameters:", " ", "0", " ", "0", " ", "0">> >>

RECURSIVE BlocksText(_, _, _)
\* blocks from..k-1 of container `tag`, each under its marker
BlocksText(tag, from, k) ==
    IF from >= k THEN <<>>
    ELSE <<Marker(from)>> \o BlockLines(tag, from) \o BlocksText(tag, from + 1, k)

\* a well-formed container of k blocks, ending with a newline
Container(tag, k) == <<HeaderLine>> \o BlocksText(tag, 0, k) \o << <<>> >>

\* the same with blanks after the last data line
ContainerWs(tag, k) ==
    LET t == <<HeaderLine>> \o BlocksText(tag, 0, k)
    IN SubSeq(t, 1, Len(t) - 1) \o <<t[Len(t)] \o <<" ">>>> \o << <<>> >>

\* k markers, but none for block 1: the second marker repeats '#Transform 0'
ContainerGap(tag, k) ==
    <<HeaderLine>> \o <<Marker(0)>> \o BlockLines(tag, 0)
        \o <<Marker(0)>> \o BlockLines(tag, 1) \o BlocksText(tag, 2, k)
        \o << <<>> >>

Warp == [name |-> <<"warp", ".nii", ".gz">>, text |-> << <<"binary">> >>]
Notes == [name |-> <<"notes", ".txt">>,
          text |-> << <<"not", " ", "a", " ", "transform">>, <<>> >>]
Single == [name |-> <<"affine", ".txt">>, text |-> Container("s", 1)]
HeaderOnly == [name |-> <<"empty", ".txt">>, text |-> <<HeaderLine, <<>>>>]
Multi(k) == [name |-> <<"mc">> \o Decimal(k) \o <<".txt">>,
             text |-> Container("m", k)]
MultiWs(k) == [name |-> <<"ws">> \o Decimal(k) \o <<".txt">>,
               text |-> ContainerWs("w", k)]
MultiGap(k) == [name |-> <<"gap">> \o Decimal(k) \o <<".txt">>,
                text |-> ContainerGap("g", k)]
Sources ==
    {Warp, Notes, Single, HeaderOnly}
        \cup {Multi(k) : k \in 2..MaxBlocks}
        \cup {MultiWs(k) : k \in 2..MaxBlocks}
        \cup {MultiGap(k) : k \in 2..MaxBlocks}

\* mimetypes.guess_type(path)[0], decided by the extension
GuessType(name) == IF name[Len(name)] = ".txt" THEN "text/plain" ELSE "other"

TmpDir == "tmp"

\* ---- the code, source by source
CurSource == aChain[aI + 1]
\* tfdata after line 182
TfRead(src) == Strip(src.text)
\* nxforms, line 190
NXforms(src) == Count(TfRead(src), "#Transform")
\* tfdata after line 193
TfLines(src) == Tail(TfRead(src))

\* lines 177-198: the source goes to every volume unchanged
IsConstant(src) ==
    \/ GuessType(src.name) # "text/plain"
    \/ TfRead(src)[1] = <<>>
    \/ TfRead(src)[1][1] # HeaderTag
    \/ NXforms(src) = 1

\* out_base(xform_i), lines 205-206 and 213
SplitPath(src, pos, xform_i) ==
    FnamePresuffix(src.name,
        <<"_pos-">> \o ZeroPad(Decimal(pos), 3)
            \o <<"_xfm-">> \o ZeroPad(Decimal(xform_i), XformWidth),
        TmpDir)

\* '\n'.join(next_xform), line 212 and 215: the text of a split file
SplitTextKeepIndex(lines, xform_i, startidx) ==
    <<HeaderLine, Marker(xform_i)>>
        \o Slice(lines, startidx + 1, startidx + 4) \o << <<>> >>
SplitText(lines, xform_i, startidx) ==
    <<HeaderLine, Marker(0)>>
        \o Slice(lines, startidx + 1, startidx + 4) \o << <<>> >>

CountAtMost(nxforms, n) == nxforms <= n
\* line 200, negated: the container has one transform per input file
CountMatches(nxforms, n) == nxforms = n

RowOf(x, n) == [k \in 1..n |-> x]

MinLen(rows) ==
    CHOOSE n \in {Len(rows[r]) : r \in 1..Len(rows)} :
        \A r \in 1..Len(rows) : n <= Len(rows[r])
\* list(map(list, zip(*xfms_T)))
Transpose(rows) ==
    IF Len(rows) = 0 THEN <<>>
    ELSE [i \in 1..MinLen(rows) |-> [j \in 1..Len(rows) |-> rows[j][i]]]

RECURSIVE SeqsUpTo(_, _)
SeqsUpTo(S, n) ==
    IF n = 0 THEN {<<>>}
    ELSE SeqsUpTo(S, n - 1) \cup [1..n -> S]

ExecIdle ==
    /\ in_files = <<>> /\ nxfms = 0 /\ num_threads = 1 /\ copy_dtype = FALSE
    /\ save_cmd = FALSE /\ ifargs = <<>> /\ pc = "idle" /\ tmpExists = FALSE
    /\ status = <<>> /\ jobCopy = <<>> /\ jobOut = <<>> /\ outDtype = <<>>
    /\ completed = <<>> /\ gathered = <<>> /\ results = Unset
    /\ logFile = Absent /\ error = NoError

ArrangeInit ==
    /\ aChain \in SeqsUpTo(Sources, MaxChain)
    /\ aN \in 0..MaxVolumes
    /\ aPc = "loop"
    /\ aI = 0
    /\ aJ = 0
    /\ aRows = <<>>
    /\ aSplit = <<>>
    /\ aWritten = <<>>
    /\ aResult = Unset
    /\ aError = NoError

InitArrange == ExecIdle /\ ArrangeInit /\ RotationIdle

\* lines 176-198: a source that is not split
ArrangeConstant ==
    /\ aPc = "loop"
    /\ aI < Len(aChain)
    /\ IsConstant(CurSource)
    /\ aRows' = Append(aRows, RowOf(CurSource.name, aN))
    /\ aI' = aI + 1
    /\ UNCHANGED <<aChain, aN, aPc, aJ, aSplit, aWritten, aResult, aError>>
    /\ UNCHANGED <<execVars, rotVars>>

\* lines 200-202
ArrangeMismatch ==
    /\ aPc = "loop"
    /\ aI < Len(aChain)
    /\ ~IsConstant(CurSource)
    /\ ~CountMatches(NXforms(CurSource), aN)
    /\ aPc' = "failed"
    /\ aError' = <<"RuntimeError", "count">>
    /\ UNCHANGED <<aChain, aN, aI, aJ, aRows, aSplit, aWritten, aResult>>
    /\ UNCHANGED <<execVars, rotVars>>

\* lines 205-208: the split begins
ArrangeBeginSplit ==
    /\ aPc = "loop"
    /\ aI < Len(aChain)
    /\ ~IsConstant(CurSource)
    /\ CountMatches(NXforms(CurSource), aN)
    /\ aPc' = "split"
    /\ aJ' = 0
    /\ aSplit' = <<>>
    /\ UNCHANGED <<aChain, aN, aI, aRows, aWritten, aResult, aError>>
    /\ UNCHANGED <<execVars, rotVars>>

\* lines 209-216, one pass of the loop over xform_i
SplitBlock ==
    /\ aPc = "split"
    /\ aJ < NXforms(CurSource)
    /\ LET startidx == ListIndex(TfLines(CurSource), Marker(aJ))
           xfm_file == SplitPath(CurSource, aI, aJ)
       IN \/ /\ startidx = NotFound
             /\ aPc' = "failed"
             /\ aError' = <<"ValueError", "marker">>
             /\ UNCHANGED <<aJ, aSplit, aWritten>>
          \/ /\ startidx # NotFound
             /\ aWritten' = [q \in DOMAIN aWritten \cup {xfm_file} |->
                    IF q = xfm_file
                    THEN SplitText(TfLines(CurSource), aJ, startidx)
                    ELSE aWritten[q]]
             /\ aSplit' = Append(aSplit, xfm_file)
             /\ aJ' = aJ + 1
             /\ UNCHANGED <<aPc, aError>>
    /\ UNCHANGED <<aChain, aN, aI, aRows, aResult>>
    /\ UNCHANGED <<execVars, rotVars>>

\* line 217
ArrangeEndSplit ==
    /\ aPc = "split"
    /\ aJ = NXforms(CurSource)
    /\ aRows' = Append(aRows, aSplit)
    /\ aI' = aI + 1
    /\ aPc' = "loop"
    /\ UNCHANGED <<aChain, aN, aJ, aSplit, aWritten, aResult, aError>>
    /\ UNCHANGED <<execVars, rotVars>>

\* line 220
ArrangeReturn ==
    /\ aPc = "loop"
    /\ aI = Len(aChain)
    /\ aResult' = Transpose(aRows)
    /\ aPc' = "done"
    /\ UNCHANGED <<aChain, aN, aI, aJ, aRows, aSplit, aWritten, aError>>
    /\ UNCHANGED <<execVars, rotVars>>

NextArrange ==
    \/ ArrangeConstant
    \/ ArrangeMismatch
    \/ ArrangeBeginSplit
    \/ SplitBlock
    \/ ArrangeEndSplit
    \/ ArrangeReturn

SpecArrange == InitArrange /\ [][NextArrange]_vars

\* ================================================ _arrange_xfms: properties
\* A well-formed container of k blocks: the format-version line, then for
\* each b in 0..k-1 the marker of b and three non-blank data lines without a
\* marker token, then nothing but blank lines.
IsDataLine(l) == Len(RStripLine(l)) > 0 /\ CountInLine(l, "#Transform") = 0
WellFormed(t, k) ==
    /\ Len(t) >= 4 * k + 1
    /\ t[1] = HeaderLine
    /\ \A b \in 0..k - 1 :
          /\ t[4 * b + 2] = Marker(b)
          /\ \A d \in 3..5 : IsDataLine(t[4 * b + d])
    /\ \A n \in 4 * k + 2..Len(t) : Len(RStripLine(t[n])) = 0
\* the three data lines under marker b, as they stand in the container
RawBlock(t, b) == SubSeq(t, 4 * b + 3, 4 * b + 5)

NotWs(t) == ~IsWs(t)
\* str.split(): the fields of a line
Fields(l) == SelectSeq(l, NotWs)
\* a block as a triple: transform type, parameters, fixed parameters
Triple(ls) == [n \in 1..Len(ls) |-> Fields(ls[n])]
\* the blocks of a transform text: the three lines under each marker line
MarkerLines(t) ==
    {n \in 1..Len(t) : Len(t[n]) > 0 /\ t[n][1] = "#Transform"}
ParsedBlocks(t) == {Triple(SubSeq(t, n + 1, n + 3)) : n \in MarkerLines(t)}

\* chain positions (from 0) whose source has been split completely
SplitDone ==
    {p \in 0..Len(aChain) - 1 :
        /\ p < aI
        /\ aN > 1
        /\ WellFormed(aChain[p + 1].text, aN)
        /\ GuessType(aChain[p + 1].name) = "text/plain"}

\* the data lines of block i once the container's text has been stripped:
\* the last line of the last block has lost its trailing white space
StrippedBlock(t, i) ==
    LET raw == RawBlock(t, i)
    IN IF i = aN - 1 THEN <<raw[1], raw[2], RStripLine(raw[3])>> ELSE raw

SplitArtifactsAre(stripped) ==
    \A p \in SplitDone :
        LET src == aChain[p + 1]
            files == {SplitPath(src, p, i) : i \in 0..aN - 1}
        IN /\ Cardinality(files) = aN
           /\ \A i \in 0..aN - 1 :
                LET f == SplitPath(src, p, i)
                IN /\ f \in DOMAIN aWritten
                   /\ aRows[p + 1][i + 1] = f
                   /\ aPc = "done" => aResult[i + 1][p + 1] = f
                   /\ aWritten[f] = <<HeaderLine, Marker(0)>>
                        \o (IF stripped THEN StrippedBlock(src.text, i)
                                     ELSE RawBlock(src.text, i))
                        \o << <<>> >>
                   /\ ParsedBlocks(aWritten[f])
                         = {Triple(RawBlock(src.text, i))}

\* C6 as stated: a well-formed container of k > 1 blocks, k the number of
\* volumes, is split into k distinct files, file i assigned to volume i and
\* made of the format-version line, '#Transform 0' and the three data lines
\* under '#Transform i' verbatim; re-parsed, file i holds the one block i.
C6_SplitVerbatim == SplitArtifactsAre(FALSE)

\* C6, amended: the same, the data lines being verbatim except that the
\* container's text is stripped before it is split, so that the last data
\* line of block k-1 is written without its trailing white space.
C6_SplitVerbatimUpToStrip == SplitArtifactsAre(TRUE)

\* a container whose last line ends in blanks has been split for 3 volumes
C6_Witness ==
    /\ aPc = "done" /\ aN = 3
    /\ \E p \in SplitDone : aChain[p + 1] = MultiWs(3)

\* C7 as stated: when the arrangement fails, no split artifact has been
\* written for any source of the chain and no table is returned.
C7_NoPartialWork ==
    aPc = "failed" => DOMAIN aWritten = {} /\ aResult = Unset

\* the artifacts of the sources that precede the failing one
EarlierArtifacts ==
    {SplitPath(aChain[p + 1], p, i) :
        p \in {q \in 0..aI - 1 : ~IsConstant(aChain[q + 1])}, i \in 0..aN - 1}

\* C7, amended: when the arrangement fails no table is returned and nothing
\* has been written for the failing block, a later block or a later source
\* (a count mismatch is raised before anything is written for its source);
\* what has been written is one artifact per volume for each split source
\* that precedes the failing one, and the blocks that precede a missing
\* marker.
C7_OnlyEarlierWork ==
    aPc = "failed" =>
        /\ aResult = Unset
        /\ aError[2] = "count" => DOMAIN aWritten = EarlierArtifacts
        /\ aError[2] = "marker" =>
              DOMAIN aWritten = EarlierArtifacts
                  \cup {SplitPath(CurSource, aI, i) : i \in 0..aJ - 1}

\* a count mismatch on the second source, after the first has been split
C7_Witness ==
    /\ aPc = "failed" /\ aError = <<"RuntimeError", "count">>
    /\ aI = 1 /\ Cardinality(DOMAIN aWritten) = aN /\ aN >= 2

\* the source of the entry for chain position j (from 0) and volume i
ExpectedEntry(j, i) ==
    IF IsConstant(aChain[j + 1]) THEN aChain[j + 1].name
    ELSE SplitPath(aChain[j + 1], j, i)

ArrangeShapeNonEmpty ==
    (aPc = "done" /\ Len(aChain) > 0) =>
        /\ Len(aResult) = aN
        /\ \A i \in 1..Len(aResult) :
              /\ Len(aResult[i]) = Len(aChain)
              /\ \A j \in 1..Len(aChain) :
                    aResult[i][j] = ExpectedEntry(j - 1, i - 1)

\* ========================================= rotation_matrix_from_transform
MaxLines == 6

MatrixLine == <<" ", " ", "Matrix:", " ">>
Row100 == <<" ", "1", " ", "0", " ", "0">>
Row010 == <<" ", "0", " ", "1", " ", "0">>
Row001 == <<" ", "0", " ", "0", " ", "1">>
\* the lines antsTransformInfo may print
ToolLines == {MatrixLine, Row100, Row010, Row001, <<>>}
\* what it may write to stdout: nothing (the text of one empty line), or up
\* to MaxLines lines
ToolOutputs == UNION {[1..n -> ToolLines] : n \in 1..MaxLines}

\* str(out) for the bytes `out` (line 238): the bytes' repr, b'...', in which
\* each newline is written as a backslash and an n
StrOfBytes(t) ==
    LET a == [t EXCEPT ![1] = <<"b'">> \o t[1]]
    IN [a EXCEPT ![Len(a)] = a[Len(a)] \o <<"'">>]

\* len(result) == 0
IsEmptyText(t) == Len(t) = 1 /\ Len(t[1]) = 0

\* line.strip()
StripLine(l) == LStripLine(RStripLine(l))

RECURSIVE SplitFields(_)
\* line.split(): the maximal runs of tokens that are not white space, each
\* run being one string
SplitFields(l) ==
    IF Len(l) = 0 THEN <<>>
    ELSE IF IsWs(l[1]) THEN SplitFields(Tail(l))
    ELSE LET rest == SplitFields(Tail(l))
         IN IF Len(l) > 1 /\ ~IsWs(l[2])
            THEN <<<<l[1]>> \o rest[1]>> \o Tail(rest)
            ELSE <<<<l[1]>>>> \o rest

\* float(s) is defined on these strings
IsFloat(field) == Len(field) = 1 /\ field[1] \in {"0", "1"}
FloatOf(field) == IF field[1] = "1" THEN 1 ELSE 0

\* lines 241-249 on the text `result`
MatrixFromText(result) ==
    LET lines == [n \in 1..Len(result) |-> StripLine(result[n])]
        start_lines == {n \in 1..Len(lines) : lines[n] = <<"Matrix:">>}
        start_line == CHOOSE n \in start_lines : TRUE
        matrix_lines == Slice(lines, start_line, start_line + 3)
        fields == [n \in 1..Len(matrix_lines) |-> SplitFields(matrix_lines[n])]
    IN IF start_lines = {} THEN <<"MatrixNotFound", <<>>>>
       ELSE IF Cardinality(start_lines) > 1 THEN <<"AmbiguousMatrix", <<>>>>
       ELSE IF \E n \in 1..Len(fields) : \E q \in 1..Len(fields[n]) :
                   ~IsFloat(fields[n][q])
       THEN <<"FloatError", <<>>>>
       ELSE <<"Matrix", [n \in 1..Len(fields) |->
                           [q \in 1..Len(fields[n]) |-> FloatOf(fields[n][q])]]>>

\* lines 238-249
RotationOutcome(out) ==
    LET result == StrOfBytes(out)
    IN IF IsEmptyText(result) THEN <<"NoOutput", <<>>>>
       ELSE MatrixFromText(result)

InitRotation ==
    /\ ExecIdle /\ ArrangeIdle
    /\ rOut \in ToolOutputs
    /\ rPc = "call"
    /\ rResult = Unset

\* rotation_matrix_from_transform: the tool has written rOut
RotationMatrix ==
    /\ rPc = "call"
    /\ rResult' = RotationOutcome(rOut)
    /\ rPc' = "done"
    /\ UNCHANGED rOut
    /\ UNCHANGED <<execVars, arrVars>>

NextRotation == RotationMatrix

SpecRotation == InitRotation /\ [][NextRotation]_vars

\* C9 as stated: the outcome is decided by the tool's text: NoOutput when it
\* is empty, else MatrixNotFound when no line is 'Matrix:', else
\* AmbiguousMatrix when several are, else the matrix of the three lines after
\* the marker, split on white space and parsed as floats.
C9_OutcomeByText ==
    rPc = "done" =>
        rResult = IF IsEmptyText(rOut) THEN <<"NoOutput", <<>>>>
                  ELSE MatrixFromText(rOut)

====
